---- MODULE Spec2Model ----
(***************************************************************************)
(* A model of src/App.jsx: the EN -> PT translator.  The React component   *)
(* state (input, output, loading, error, history, query), the value kept   *)
(* in localStorage under STORAGE_KEY, the effects React still has to run,  *)
(* and the one asynchronous call to translateENtoPT that can be suspended  *)
(* at an await.                                                            *)
(*                                                                         *)
(* A JavaScript string is a sequence of one-character strings.  A JSON     *)
(* text is a sequence of tokens.                                           *)
(***************************************************************************)
EXTENDS Integers, Sequences, FiniteSets, TLC

\* ------------------------------------------------------------ constants

CHAR_LIMIT == 3000

\* [item, ...h].slice(0, 200)
HISTORY_LIMIT == 200

\* e.target.value.slice(0, CHAR_LIMIT + 100)
EDIT_SLACK == 100

\* Calls of translateENtoPT in one run of the application as a whole.
MaxCalls == 2

\* Calls of translateENtoPT in one run against every answer of the endpoints.
OrchCalls == 1

\* Calls of translateENtoPT in one run on a history at its limit.
CapCalls == 2

\* Calls of translateENtoPT in one run on texts at the limit of length.
LimitCalls == 1

\* Calls of translateENtoPT in one run with a storage that can be full.
QuotaCalls == 1

\* Calls of translateENtoPT in one run over the queries of the search box.
SearchCalls == 1

\* Calls of translateENtoPT in one run in which the page is loaded again.
RoundCalls == 1

\* ------------------------------------------------------------- strings

Whitespace == {" ", "\n"}

lowerChar(c) ==
    CASE c = "H" -> "h"
      [] c = "F" -> "f"
      [] c = "T" -> "t"
      [] c = "O" -> "o"
      [] OTHER -> c

toLowerCase(s) == [i \in 1..Len(s) |-> lowerChar(s[i])]

RECURSIVE firstNonSpace(_, _)
firstNonSpace(s, i) ==
    IF i > Len(s) \/ s[i] \notin Whitespace THEN i ELSE firstNonSpace(s, i + 1)

RECURSIVE lastNonSpace(_, _)
lastNonSpace(s, i) ==
    IF i < 1 \/ s[i] \notin Whitespace THEN i ELSE lastNonSpace(s, i - 1)

trim(s) == SubSeq(s, firstNonSpace(s, 1), lastNonSpace(s, Len(s)))

\* s.slice(0, n)
slice(s, n) == IF Len(s) <= n THEN s ELSE SubSeq(s, 1, n)

\* s.includes(q)
includes(s, q) ==
    LET str == s
        sub == q
    IN  \E i \in 0..(Len(str) - Len(sub)) :
            \A k \in 1..Len(sub) : str[i + k] = sub[k]

Repeat(c, n) == [i \in 1..n |-> c]

\* The first line of the final fallback of translateENtoPT and the blank
\* line after it.
WARNING ==
    << "U+26A0", "U+FE0F", " ", "F", "a", "l", "h", "a", " ", "a", "o", " ",
       "t", "r", "a", "d", "u", "z", "i", "r", " ", "a", "u", "t", "o", "m",
       "a", "t", "i", "c", "a", "m", "e", "n", "t", "e", ".", " ", "T", "e",
       "x", "t", "o", " ", "o", "r", "i", "g", "i", "n", "a", "l", " ", "m",
       "a", "n", "t", "i", "d", "o", " ", "a", "b", "a", "i", "x", "o", ":",
       "\n", "\n" >>

\* A slip: the warning alone.
fallbackTextBare(text) == WARNING

fallbackText(text) == WARNING \o text

hasWarning(s) == Len(s) >= Len(WARNING) /\ SubSeq(s, 1, Len(WARNING)) = WARNING

\* ---------------------------------------------------------------- JSON

\* A token of a JSON text: punctuation, a number or a string.
Punct(p) == [t |-> p, n |-> 0, s |-> <<>>]
NumTok(k) == [t |-> "num", n |-> k, s |-> <<>>]
StrTok(x) == [t |-> "str", n |-> 0, s |-> x]

\* A JavaScript value held in `history`: an array of entries, or what else
\* JSON.parse can return.
ArrayOf(items) == [kind |-> "array", items |-> items]
EmptyObject == [kind |-> "object", items |-> <<>>]
Null == [kind |-> "null", items |-> <<>>]

Item(id, when, src, dst) == [id |-> id, when |-> when, src |-> src, dst |-> dst]

entryTokens(e) ==
    << Punct("{"), NumTok(e.id), NumTok(e.when), StrTok(e.src), StrTok(e.dst),
       Punct("}") >>

EntryWidth == Len(entryTokens(Item(0, 0, <<>>, <<>>)))

itemsTokens(items) ==
    [k \in 1..(EntryWidth * Len(items)) |->
        entryTokens(items[((k - 1) \div EntryWidth) + 1])[((k - 1) % EntryWidth) + 1]]

JSONstringify(v) ==
    CASE v.kind = "array" -> <<Punct("[")>> \o itemsTokens(v.items) \o <<Punct("]")>>
      [] v.kind = "object" -> <<Punct("{"), Punct("}")>>
      [] v.kind = "null" -> <<Punct("null")>>

isEntryAt(raw, k) ==
    /\ raw[k].t = "{"
    /\ raw[k + 1].t = "num"
    /\ raw[k + 2].t = "num"
    /\ raw[k + 3].t = "str"
    /\ raw[k + 4].t = "str"
    /\ raw[k + 5].t = "}"

\* A slip: src and dst read from each other's place.
entryAtSwapped(raw, k) ==
    Item(raw[k + 1].n, raw[k + 2].n, raw[k + 4].s, raw[k + 3].s)

entryAt(raw, k) == Item(raw[k + 1].n, raw[k + 2].n, raw[k + 3].s, raw[k + 4].s)

isArrayText(raw) ==
    /\ Len(raw) >= 2
    /\ raw[1].t = "["
    /\ raw[Len(raw)].t = "]"
    /\ (Len(raw) - 2) % EntryWidth = 0
    /\ \A j \in 1..((Len(raw) - 2) \div EntryWidth) :
          isEntryAt(raw, 2 + (j - 1) * EntryWidth)

\* Does JSON.parse(raw) return (TRUE) or throw a SyntaxError (FALSE)?
JSONparses(raw) ==
    \/ isArrayText(raw)
    \/ raw = <<Punct("{"), Punct("}")>>
    \/ raw = <<Punct("null")>>

\* What JSON.parse(raw) returns when it returns.
JSONparse(raw) ==
    CASE raw = <<Punct("{"), Punct("}")>> -> EmptyObject
      [] raw = <<Punct("null")>> -> Null
      [] OTHER ->
          ArrayOf([j \in 1..((Len(raw) - 2) \div EntryWidth) |->
                      entryAt(raw, 2 + (j - 1) * EntryWidth)])

\* localStorage.getItem of a key never set returns null; the model writes
\* that as no text at all, told from the empty string by `stored`.
Absent == [stored |-> FALSE, raw |-> <<>>]
Stored(raw) == [stored |-> TRUE, raw |-> raw]

\* `if (raw)`: null and "" are falsy.
truthyRaw(st) == st.stored /\ st.raw # <<>>

\* ------------------------------------------------- endpoint responses

\* A field of a JSON object that holds a string, or is missing.
Missing == [def |-> FALSE, v |-> <<>>]
Field(x) == [def |-> TRUE, v |-> x]

\* The value res.json() resolves to: null, or an object with an optional
\* translatedText and an optional responseData (null, or an object with an
\* optional translatedText).
Data(isNull, tt, rdKind, rdtt) ==
    [null |-> isNull, translatedText |-> tt,
     responseData |-> [kind |-> rdKind, translatedText |-> rdtt]]

Ola == <<"O", "l", "a">>
Oi == <<"o", "i">>

DataValues ==
    { Data(TRUE, Missing, "undefined", Missing),
      Data(FALSE, Field(<<>>), "undefined", Missing),
      Data(FALSE, Field(Ola), "undefined", Missing),
      Data(FALSE, Missing, "null", Missing),
      Data(FALSE, Missing, "object", Missing),
      Data(FALSE, Missing, "object", Field(<<>>)),
      Data(FALSE, Missing, "object", Field(Oi)),
      Data(FALSE, Field(Ola), "object", Field(Oi)) }

\* How a fetch settles: it rejects (network failure) or resolves to a
\* response whose status is a success (res.ok) or not.
FetchOutcomes == {"network", "status", "ok"}

\* How res.json() settles: it rejects (the body is no JSON) or resolves.
NoData == Data(TRUE, Missing, "undefined", Missing)
Bodies ==
    {[json |-> FALSE, data |-> NoData]} \cup
    {[json |-> TRUE, data |-> d] : d \in DataValues}

\* What one endpoint did in the current call: nothing yet ("none"), or a
\* failure mode, or the data it answered with.
NoOutcome == [mode |-> "none", data |-> NoData]
Failed(mode) == [mode |-> mode, data |-> NoData]
Answered(d) == [mode |-> "data", data |-> d]

\* A slip: the field of the other endpoint.
libreFieldNested(data) ==
    IF data.null THEN Missing ELSE data.responseData.translatedText

\* data?.translatedText
libreField(data) == IF data.null THEN Missing ELSE data.translatedText

\* A slip: the field of the other endpoint.
myMemoryFieldFlat(data) == IF data.null THEN Missing ELSE data.translatedText

\* data?.responseData?.translatedText
myMemoryField(data) ==
    IF data.null \/ data.responseData.kind # "object" THEN Missing
    ELSE data.responseData.translatedText

\* `if (t)`: undefined and "" are falsy.
truthy(f) == f.def /\ f.v # <<>>

\* --------------------------------------------------------------- state

VARIABLES
    input,        \* useState(""): the text of the textarea
    output,       \* useState(""): the translation shown
    loading,      \* useState(false)
    error,        \* useState(""): the validation or failure message
    history,      \* useState([]): the value React holds for the history
    query,        \* useState(""): the text of the search box
    storage,      \* localStorage under STORAGE_KEY
    pending,      \* what React still has to run, in order
    queued,       \* the setHistory of the load effect, not yet rendered
    crashed,      \* a render threw: React has unmounted the component
    calls,        \* the calls of handleTranslate suspended at line 98
    returned,     \* the call of the last click, once it has returned
    started,      \* calls of translateENtoPT so far
    nextId,       \* the serial number crypto.randomUUID() returns next
    now,          \* Date.now()
    writeFailed   \* the last localStorage.setItem threw

vars ==
    << input, output, loading, error, history, query, storage, pending,
       queued, crashed, calls, returned, started, nextId, now, writeFailed >>

NO_ERROR == ""
ERR_EMPTY == "Digite um texto em ingles para traduzir."
ERR_LIMIT == "O texto excede o limite de 3000 caracteres."
ERR_GENERIC == "Nao foi possivel traduzir agora. Tente novamente em instantes."

Request(endpoint, q) == [endpoint |-> endpoint, q |-> q]

\* The call of the last click has not returned, or there was no click.
NoCall ==
    [pc |-> "none", input |-> <<>>, text |-> <<>>, seen |-> ArrayOf(<<>>),
     sent |-> <<>>, libre |-> NoOutcome, mymemory |-> NoOutcome,
     translated |-> <<>>]

NothingQueued == [set |-> FALSE, value |-> ArrayOf(<<>>)]

\* ------------------------------------------------------ what was saved

Hi == <<"H", "i">>

\* The history a previous session left after k translations of "Hi".
SavedItem(k, j) == Item(k - j + 1, k - j + 1, Hi, Ola)
Saved(k) == [j \in 1..k |-> SavedItem(k, j)]

\* A JSON text cut short: JSON.parse throws on it.
CutShort == <<Punct("["), Punct("{")>>

Damaged ==
    { Absent, Stored(<<>>), Stored(CutShort),
      Stored(JSONstringify(EmptyObject)), Stored(JSONstringify(Null)) }

SavedBy(sizes) == {Stored(JSONstringify(ArrayOf(Saved(k)))) : k \in sizes}

\* The entries of a saved history: their ids and times are used up.
savedCount(st) ==
    IF truthyRaw(st) /\ isArrayText(st.raw)
    THEN (Len(st.raw) - 2) \div EntryWidth
    ELSE 0

InitOver(stores) ==
    /\ input = <<>>
    /\ output = <<>>
    /\ loading = FALSE
    /\ error = NO_ERROR
    /\ history = ArrayOf(<<>>)
    /\ query = <<>>
    /\ storage \in stores
    /\ pending = <<"load", "save">>
    /\ queued = NothingQueued
    /\ crashed = FALSE
    /\ calls = <<>>
    /\ returned = NoCall
    /\ started = 0
    /\ nextId = savedCount(storage) + 1
    /\ now = savedCount(storage) + 1
    /\ writeFailed = FALSE

\* ------------------------------------------------------------- effects

\* The user and the network act on a mounted component with no effect
\* left to run.
Quiet == ~crashed /\ pending = <<>>

Next1(work) == ~crashed /\ pending # <<>> /\ Head(pending) = work

\* useEffect(..., []): read and parse what was saved.
LoadEffect ==
    /\ Next1("load")
    /\ IF truthyRaw(storage) /\ JSONparses(storage.raw)
       THEN /\ queued' = [set |-> TRUE, value |-> JSONparse(storage.raw)]
            /\ pending' = Tail(pending) \o <<"render">>
       ELSE /\ queued' = queued
            /\ pending' = Tail(pending)
    /\ UNCHANGED << input, output, loading, error, history, query, storage,
                    crashed, calls, returned, started, nextId, now, writeFailed >>

\* A slip: no try around setItem, and its throw unmounts the component.
SaveEffectUncaught(ok) ==
    /\ Next1("save")
    /\ storage' = IF ok THEN Stored(JSONstringify(history)) ELSE storage
    /\ writeFailed' = ~ok
    /\ crashed' = ~ok
    /\ pending' = IF ok THEN Tail(pending) ELSE <<>>
    /\ UNCHANGED << input, output, loading, error, history, query, queued,
                    calls, returned, started, nextId, now >>

\* A slip: the write goes under another key.
SaveEffectElsewhere(ok) ==
    /\ Next1("save")
    /\ writeFailed' = ~ok
    /\ pending' = Tail(pending)
    /\ UNCHANGED << input, output, loading, error, history, query, storage,
                    queued, crashed, calls, returned, started, nextId, now >>

\* useEffect(..., [history]): write the history of this render; a throw
\* of setItem is caught.
SaveEffect(ok) ==
    /\ Next1("save")
    /\ storage' = IF ok THEN Stored(JSONstringify(history)) ELSE storage
    /\ writeFailed' = ~ok
    /\ pending' = Tail(pending)
    /\ UNCHANGED << input, output, loading, error, history, query, queued,
                    crashed, calls, returned, started, nextId, now >>

\* filteredHistory.length and filteredHistory.map of the render: a
\* TypeError on anything but an array.
renders(h) == h.kind = "array"

\* The render after the load effect's setHistory.
Render ==
    /\ Next1("render")
    /\ history' = queued.value
    /\ queued' = NothingQueued
    /\ IF renders(queued.value)
       THEN crashed' = FALSE /\ pending' = Tail(pending) \o <<"save">>
       ELSE crashed' = TRUE /\ pending' = <<>>
    /\ UNCHANGED << input, output, loading, error, query, storage, calls,
                    returned, started, nextId, now, writeFailed >>

\* The page is loaded again: the component is mounted anew with the
\* initial values of useState, over the localStorage as it was left.  The
\* calls suspended are gone with the old page.  The two effects of the
\* mount run in one flush, which no reload comes between.
Restart ==
    /\ pending # <<"save", "render">>
    /\ input' = <<>>
    /\ output' = <<>>
    /\ loading' = FALSE
    /\ error' = NO_ERROR
    /\ history' = ArrayOf(<<>>)
    /\ query' = <<>>
    /\ pending' = <<"load", "save">>
    /\ queued' = NothingQueued
    /\ crashed' = FALSE
    /\ calls' = <<>>
    /\ returned' = NoCall
    /\ writeFailed' = FALSE
    /\ UNCHANGED << storage, started, nextId, now >>

\* ------------------------------------------------------------ handlers

\* The textarea's onChange.
ChangeInput(value) ==
    /\ Quiet
    /\ input' = slice(value, CHAR_LIMIT + EDIT_SLACK)
    /\ UNCHANGED << output, loading, error, history, query, storage, pending,
                    queued, crashed, calls, returned, started, nextId, now,
                    writeFailed >>

\* The search box's onChange.
ChangeQuery(value) ==
    /\ Quiet
    /\ query' = value
    /\ UNCHANGED << input, output, loading, error, history, storage, pending,
                    queued, crashed, calls, returned, started, nextId, now,
                    writeFailed >>

\* The "Novo" button.
Novo ==
    /\ Quiet
    /\ input' = <<>>
    /\ output' = <<>>
    /\ error' = NO_ERROR
    /\ UNCHANGED << loading, history, query, storage, pending, queued,
                    crashed, calls, returned, started, nextId, now,
                    writeFailed >>

\* A slip: the query is tested for emptiness as it was typed.
searchUntrimmed(items, q) ==
    IF q = <<>> THEN items
    ELSE SelectSeq(items,
            LAMBDA h : \/ includes(toLowerCase(h.src), toLowerCase(q))
                       \/ includes(toLowerCase(h.dst), toLowerCase(q)))

\* The useMemo over [history, query].
search(items, q) ==
    IF trim(q) = <<>> THEN items
    ELSE SelectSeq(items,
            LAMBDA h : \/ includes(toLowerCase(h.src), toLowerCase(q))
                       \/ includes(toLowerCase(h.dst), toLowerCase(q)))

filteredHistory == search(history.items, query)

\* The entries shown, as far as their "Reabrir" buttons differ: by the src
\* and dst that loadIntoEditor reads.
reopenable ==
    LET shown == filteredHistory
    IN  {[src |-> shown[k].src, dst |-> shown[k].dst] : k \in 1..Len(shown)}

\* The "Reabrir" button of an entry shown.
loadIntoEditor(item) ==
    /\ Quiet
    /\ input' = slice(item.src, CHAR_LIMIT)
    /\ output' = item.dst
    /\ UNCHANGED << loading, error, history, query, storage, pending, queued,
                    crashed, calls, returned, started, nextId, now,
                    writeFailed >>

\* A slip: the answer to confirm() is not looked at.
handleClearUnasked(confirmed) ==
    /\ Quiet
    /\ history' = ArrayOf(<<>>)
    /\ pending' = <<"save">>
    /\ UNCHANGED << input, output, loading, error, query, storage, queued,
                    crashed, calls, returned, started, nextId, now,
                    writeFailed >>

\* A slip: the history is emptied and no save follows.
handleClearUnsaved(confirmed) ==
    /\ Quiet
    /\ history' = IF confirmed THEN ArrayOf(<<>>) ELSE history
    /\ UNCHANGED << input, output, loading, error, query, storage, pending,
                    queued, crashed, calls, returned, started, nextId, now,
                    writeFailed >>

\* The "Limpar historico" button and the answer given to confirm().
handleClearHistory(confirmed) ==
    /\ Quiet
    /\ IF confirmed
       THEN history' = ArrayOf(<<>>) /\ pending' = <<"save">>
       ELSE history' = history /\ pending' = pending
    /\ UNCHANGED << input, output, loading, error, query, storage, queued,
                    crashed, calls, returned, started, nextId, now,
                    writeFailed >>

\* A slip: no check of the length.
validateNoLimit(text) == IF text = <<>> THEN ERR_EMPTY ELSE NO_ERROR

\* A slip: no check for an empty text.
validateNoEmpty(text) == IF Len(text) > CHAR_LIMIT THEN ERR_LIMIT ELSE NO_ERROR

\* Lines 88-95: the message of the validation that fails, if one does.
validate(text) ==
    IF text = <<>> THEN ERR_EMPTY
    ELSE IF Len(text) > CHAR_LIMIT THEN ERR_LIMIT
    ELSE NO_ERROR

\* A slip: the button is never disabled.
canSubmitAlways == TRUE

\* disabled={loading}
canSubmit == ~loading

\* The call as translateENtoPT(text) starts: tryLibreTranslate has sent
\* its request and awaits the fetch.  `seen` is the history of the render
\* whose handleTranslate was clicked: the `history` in the handler's scope.
newCall(in, text) ==
    [pc |-> "libre_fetch", input |-> in, text |-> text, seen |-> history,
     sent |-> <<Request("libre", text)>>,
     libre |-> NoOutcome, mymemory |-> NoOutcome, translated |-> <<>>]

\* A click on the translate button, up to the await of line 98.
handleTranslate(maxCalls) ==
    /\ Quiet
    /\ canSubmit
    /\ error' = validate(trim(input))
    /\ output' = <<>>
    /\ IF validate(trim(input)) # NO_ERROR
       THEN UNCHANGED << loading, calls, started, returned >>
       ELSE /\ started < maxCalls
            /\ loading' = TRUE
            /\ calls' = Append(calls, newCall(input, trim(input)))
            /\ started' = started + 1
            /\ returned' = NoCall
    /\ UNCHANGED << input, history, query, storage, pending, queued, crashed,
                    nextId, now, writeFailed >>

\* A slip: no truncation.
insertUncut(item, h) == ArrayOf(<<item>> \o h.items)

\* setHistory((h) => [item, ...h].slice(0, 200))
insert(item, h) == ArrayOf(slice(<<item>> \o h.items, HISTORY_LIMIT))

dropCall(i) == [j \in 1..(Len(calls) - 1) |-> IF j < i THEN calls[j] ELSE calls[j + 1]]

\* A slip: no finally, and loading stays as it is.
ResumeNoFinally(i, c, translated) ==
    /\ output' = translated
    /\ history' = insert(Item(nextId, now, c.text, translated), history)
    /\ pending' = <<"save">>
    /\ calls' = dropCall(i)
    /\ returned' = [c EXCEPT !.pc = "returned", !.translated = translated]
    /\ nextId' = nextId + 1
    /\ now' = now + 1
    /\ UNCHANGED << input, loading, error, query, storage, queued, crashed,
                    started, writeFailed >>

\* A slip: src is read from the textarea when the translation arrives.
ResumeCurrentInput(i, c, translated) ==
    /\ output' = translated
    /\ history' = insert(Item(nextId, now, trim(input), translated), history)
    /\ loading' = FALSE
    /\ pending' = <<"save">>
    /\ calls' = dropCall(i)
    /\ returned' = [c EXCEPT !.pc = "returned", !.translated = translated]
    /\ nextId' = nextId + 1
    /\ now' = now + 1
    /\ UNCHANGED << input, error, query, storage, queued, crashed, started,
                    writeFailed >>

\* A slip: setHistory([item, ...history].slice(0, 200)), on the history in
\* the handler's scope.
ResumeStale(i, c, translated) ==
    /\ output' = translated
    /\ history' = insert(Item(nextId, now, c.text, translated), c.seen)
    /\ loading' = FALSE
    /\ pending' = <<"save">>
    /\ calls' = dropCall(i)
    /\ returned' = [c EXCEPT !.pc = "returned", !.translated = translated]
    /\ nextId' = nextId + 1
    /\ now' = now + 1
    /\ UNCHANGED << input, error, query, storage, queued, crashed, started,
                    writeFailed >>

\* translateENtoPT returned `translated` to call i, now c: lines 99-106 and
\* 110, and the render they cause.
Resume(i, c, translated) ==
    /\ output' = translated
    /\ history' = insert(Item(nextId, now, c.text, translated), history)
    /\ loading' = FALSE
    /\ pending' = <<"save">>
    /\ calls' = dropCall(i)
    /\ returned' = [c EXCEPT !.pc = "returned", !.translated = translated]
    /\ nextId' = nextId + 1
    /\ now' = now + 1
    /\ UNCHANGED << input, error, query, storage, queued, crashed, started,
                    writeFailed >>

\* A slip: catch (e2) throws on, to the catch and the finally of
\* handleTranslate.
rethrowE2(i, c) ==
    /\ error' = ERR_GENERIC
    /\ loading' = FALSE
    /\ calls' = dropCall(i)
    /\ returned' = [c EXCEPT !.pc = "raised"]
    /\ UNCHANGED << input, output, history, query, storage, pending, queued,
                    crashed, started, nextId, now, writeFailed >>

\* catch (e2): translateENtoPT returns the final fallback to call i, now c.
catchE2(i, c) == Resume(i, c, fallbackText(c.text))

\* Call i, now c, stays suspended inside translateENtoPT.
Suspend(i, c) ==
    /\ calls' = [calls EXCEPT ![i] = c]
    /\ UNCHANGED << input, output, loading, error, history, query, storage,
                    pending, queued, crashed, returned, started, nextId, now,
                    writeFailed >>

\* catch (e1): tryMyMemory sends its request and awaits the fetch.
catchE1(c) ==
    [c EXCEPT !.pc = "mymemory_fetch",
              !.sent = Append(@, Request("mymemory", c.text))]

\* tryLibreTranslate, line 15: the fetch settles.
LibreFetchSettles(i, o) ==
    /\ Quiet
    /\ calls[i].pc = "libre_fetch"
    /\ IF o = "ok"
       THEN Suspend(i, [calls[i] EXCEPT !.pc = "libre_json"])
       ELSE Suspend(i, catchE1([calls[i] EXCEPT !.libre = Failed(o)]))

\* tryLibreTranslate, lines 21-23: res.json() settles.
LibreJsonSettles(i, b) ==
    /\ Quiet
    /\ calls[i].pc = "libre_json"
    /\ IF ~b.json
       THEN Suspend(i, catchE1([calls[i] EXCEPT !.libre = Failed("syntax")]))
       ELSE IF truthy(libreField(b.data))
       THEN Resume(i, [calls[i] EXCEPT !.libre = Answered(b.data)],
                   libreField(b.data).v)
       ELSE Suspend(i, catchE1([calls[i] EXCEPT !.libre = Answered(b.data)]))

\* tryMyMemory, line 30: the fetch settles; catch (e2) on a failure.
MyMemoryFetchSettles(i, o) ==
    /\ Quiet
    /\ calls[i].pc = "mymemory_fetch"
    /\ IF o = "ok"
       THEN Suspend(i, [calls[i] EXCEPT !.pc = "mymemory_json"])
       ELSE catchE2(i, [calls[i] EXCEPT !.mymemory = Failed(o)])

\* tryMyMemory, lines 32-35: res.json() settles; catch (e2) on a failure.
MyMemoryJsonSettles(i, b) ==
    /\ Quiet
    /\ calls[i].pc = "mymemory_json"
    /\ IF ~b.json
       THEN catchE2(i, [calls[i] EXCEPT !.mymemory = Failed("syntax")])
       ELSE IF truthy(myMemoryField(b.data))
       THEN Resume(i, [calls[i] EXCEPT !.mymemory = Answered(b.data)],
                   myMemoryField(b.data).v)
       ELSE catchE2(i, [calls[i] EXCEPT !.mymemory = Answered(b.data)])

\* ------------------------------------------------------ specifications

NextOver(texts, queries, fetches, bodies, writes, maxCalls) ==
    \/ LoadEffect
    \/ \E ok \in writes : SaveEffect(ok)
    \/ Render
    \/ \E v \in texts : ChangeInput(v)
    \/ \E v \in queries : ChangeQuery(v)
    \/ Novo
    \/ \E item \in reopenable : loadIntoEditor(item)
    \/ \E confirmed \in BOOLEAN : handleClearHistory(confirmed)
    \/ handleTranslate(maxCalls)
    \/ \E i \in 1..Len(calls), o \in fetches : LibreFetchSettles(i, o)
    \/ \E i \in 1..Len(calls), b \in bodies : LibreJsonSettles(i, b)
    \/ \E i \in 1..Len(calls), o \in fetches : MyMemoryFetchSettles(i, o)
    \/ \E i \in 1..Len(calls), b \in bodies : MyMemoryJsonSettles(i, b)

Blank == <<" ", "\n">>
PaddedHi == <<" ">> \o Hi \o <<"\n">>

Texts == {Blank, PaddedHi}
Queries == {<<>>, <<"h">>, <<" ">>}

\* The least that tells the endpoints' ways apart: a fetch fails or not, a
\* body is no JSON or holds both fields.
FewFetches == {"network", "ok"}
FewBodies ==
    { [json |-> FALSE, data |-> NoData],
      [json |-> TRUE, data |-> Data(FALSE, Field(Ola), "object", Field(Oi))] }

\* The application as a whole.
Init == InitOver(Damaged \cup SavedBy({0, 1}))
Next == NextOver(Texts, Queries, FewFetches, FewBodies, {TRUE}, MaxCalls)
Spec == Init /\ [][Next]_vars

\* translateENtoPT against every way an endpoint can answer.
InitOrch == InitOver(SavedBy({1}))
NextOrch ==
    NextOver({PaddedHi}, {<<"h">>}, FetchOutcomes, Bodies, {TRUE}, OrchCalls)
SpecOrch == InitOrch /\ [][NextOrch]_vars

\* A history at its limit.
InitCap == InitOver(SavedBy({HISTORY_LIMIT - 1, HISTORY_LIMIT}))
NextCap ==
    NextOver({PaddedHi}, {<<"h">>}, FewFetches, FewBodies, {TRUE}, CapCalls)
SpecCap == InitCap /\ [][NextCap]_vars

\* Texts at the limit of length: one that is at the limit once trimmed,
\* one that is a character over it, one longer than the textarea keeps.
AtLimit == Repeat("x", CHAR_LIMIT)
TooLong == Repeat("x", CHAR_LIMIT + 1)
PaddedAtLimit == <<" ">> \o AtLimit \o <<"\n">>
Overflow == Repeat("x", CHAR_LIMIT + EDIT_SLACK + 1)

InitLimit == InitOver(SavedBy({1}))
NextLimit ==
    NextOver({PaddedAtLimit, TooLong, Overflow}, {<<"x">>}, FewFetches,
             {[json |-> TRUE, data |-> Data(FALSE, Field(Ola), "object", Field(Oi))]},
             {TRUE}, LimitCalls)
SpecLimit == InitLimit /\ [][NextLimit]_vars

\* A storage whose setItem can throw.
InitQuota == InitOver({Absent} \cup SavedBy({1}))
NextQuota ==
    NextOver({PaddedHi}, {<<"h">>}, FewFetches, FewBodies, BOOLEAN, QuotaCalls)
SpecQuota == InitQuota /\ [][NextQuota]_vars

\* The queries of the search box: none, blank, a word in another case than
\* the entries', the same with a space after it, and words of a dst.
InitSearch == InitOver(SavedBy({1}))
NextSearch ==
    NextOver({PaddedHi},
             {<<>>, <<" ">>, <<"h", "i">>, <<"h", "i", " ">>, <<"O">>, <<"z">>},
             FewFetches, FewBodies, {TRUE}, SearchCalls)
SpecSearch == InitSearch /\ [][NextSearch]_vars

\* The page loaded again over what the session before it saved: nothing,
\* one entry or a full history.
InitRound == InitOver({Absent} \cup SavedBy({1, HISTORY_LIMIT}))
NextRound ==
    \/ NextOver({PaddedHi}, {<<"h">>}, FewFetches, FewBodies, {TRUE}, RoundCalls)
    \/ Restart
SpecRound == InitRound /\ [][NextRound]_vars

\* ------------------------------------------------------------- claims

\* The calls of translateENtoPT the state knows: those suspended and the
\* one that has returned since the last click.
hasReturned == returned.pc = "returned"
knownCalls ==
    {calls[i] : i \in 1..Len(calls)} \cup (IF hasReturned THEN {returned} ELSE {})

usedMyMemory(c) == \E k \in 1..Len(c.sent) : c.sent[k].endpoint = "mymemory"

\* The primary endpoint answered with a success status and a JSON object
\* whose translatedText is a non-empty string.
validPrimary(c) ==
    /\ c.libre.mode = "data"
    /\ ~c.libre.data.null
    /\ c.libre.data.translatedText.def
    /\ c.libre.data.translatedText.v # <<>>

\* The primary endpoint failed: the network, the status, the body or the
\* field.
failedPrimary(c) == c.libre.mode # "none" /\ ~validPrimary(c)

\* The secondary endpoint answered with a success status and a JSON object
\* whose responseData.translatedText is a non-empty string.
validSecondary(c) ==
    /\ c.mymemory.mode = "data"
    /\ ~c.mymemory.data.null
    /\ c.mymemory.data.responseData.kind = "object"
    /\ c.mymemory.data.responseData.translatedText.def
    /\ c.mymemory.data.responseData.translatedText.v # <<>>

failedSecondary(c) == c.mymemory.mode # "none" /\ ~validSecondary(c)

\* C1: a call whose primary endpoint answered with a valid translatedText
\* has returned, returned exactly that value, and never called the
\* secondary endpoint.
C1_PrimaryWins ==
    \A c \in knownCalls :
        validPrimary(c) =>
            /\ c.pc = "returned"
            /\ c.translated = c.libre.data.translatedText.v
            /\ c.sent = <<Request("libre", c.text)>>
            /\ ~usedMyMemory(c)

C1_Witness ==
    /\ hasReturned
    /\ validPrimary(returned)
    /\ returned.libre.data.responseData.kind = "object"
    /\ output = Ola
    /\ history.items[1].dst = Ola

\* C2: when the primary endpoint failed, in whichever way, and the
\* secondary answered with a valid responseData.translatedText, the call
\* returned exactly that value, without the warning; and the secondary is
\* called only after the primary has failed, once.
C2_SecondaryWins ==
    \A c \in knownCalls :
        /\ usedMyMemory(c) =>
              /\ failedPrimary(c)
              /\ c.sent = <<Request("libre", c.text), Request("mymemory", c.text)>>
        /\ (failedPrimary(c) /\ validSecondary(c)) =>
              /\ c.pc = "returned"
              /\ c.translated = c.mymemory.data.responseData.translatedText.v
              /\ ~hasWarning(c.translated)

C2_Witness ==
    /\ hasReturned
    /\ returned.libre.mode = "status"
    /\ validSecondary(returned)
    /\ returned.mymemory.data.translatedText.def
    /\ output = Oi
    /\ history.items[1].dst = Oi

\* C3: when both endpoints failed, the call returned the warning followed
\* by the text it was given, which is the input of the click, trimmed.
C3_Fallback ==
    \A c \in knownCalls :
        (failedPrimary(c) /\ failedSecondary(c)) =>
            /\ c.pc = "returned"
            /\ hasWarning(c.translated)
            /\ SubSeq(c.translated, Len(WARNING) + 1, Len(c.translated))
                  = trim(c.input)
            /\ Len(c.translated) = Len(WARNING) + Len(trim(c.input))

C3_Witness ==
    /\ hasReturned
    /\ failedPrimary(returned)
    /\ failedSecondary(returned)
    /\ returned.input = PaddedHi
    /\ output = WARNING \o Hi
    /\ history.items[1].dst = WARNING \o Hi

\* An entry was inserted: the only step that takes a serial number.
insertStep == nextId' = nextId + 1

atMost(a, b) == IF a <= b THEN a ELSE b

\* C4: the history never holds more than 200 entries; they are the most
\* recently inserted ones, newest first; and an insert puts the new entry
\* first, keeps the entries before it in their order and leaves
\* min(n + 1, 200) of them, so that inserts into a full history leave
\* exactly the 200 most recent.
C4_Newest ==
    /\ Len(history.items) <= HISTORY_LIMIT
    /\ \A j \in 1..Len(history.items) : history.items[j].id = nextId - j

C4_InsertStep ==
    insertStep =>
        /\ Len(history'.items) = atMost(Len(history.items) + 1, HISTORY_LIMIT)
        /\ history'.items[1].id = nextId
        /\ \A j \in 2..Len(history'.items) :
              history'.items[j] = history.items[j - 1]

C4_HistoryCap == []C4_Newest /\ [][C4_InsertStep]_vars

\* More than 200 inserts, two of them in this session, and no clear.
C4_Witness ==
    /\ nextId = HISTORY_LIMIT + 3
    /\ started = 2
    /\ Len(history.items) = HISTORY_LIMIT
    /\ history.items[1].id = HISTORY_LIMIT + 2
    /\ history.items[HISTORY_LIMIT].id = 3
    /\ history.items[1].src = Hi
    /\ Quiet

C5_NoLongCall ==
    /\ \A c \in knownCalls :
          /\ Len(trim(c.input)) <= CHAR_LIMIT
          /\ \A k \in 1..Len(c.sent) : Len(c.sent[k].q) <= CHAR_LIMIT
    /\ \A j \in 1..Len(history.items) : Len(history.items[j].src) <= CHAR_LIMIT

C5_Click ==
    (handleTranslate(LimitCalls) /\ Len(trim(input)) > CHAR_LIMIT) =>
        /\ error' = ERR_LIMIT
        /\ ~loading'
        /\ UNCHANGED << calls, returned, started, history, storage, pending,
                        nextId >>

matches(h, q) ==
    \/ includes(toLowerCase(h.src), toLowerCase(trim(q)))
    \/ includes(toLowerCase(h.dst), toLowerCase(trim(q)))

C6_AsClaimed ==
    renders(history) =>
        filteredHistory = SelectSeq(history.items, LAMBDA h : matches(h, query))

\* C7 as claimed: whatever was stored, no render throws and the history is
\* an array; and it is the empty array as long as no entry was saved by a
\* previous session nor inserted by this one.
C7_AsClaimed ==
    /\ ~crashed
    /\ history.kind = "array"
    /\ nextId = 1 => history.items = <<>>

\* C8: with no effect left to run and the last write not refused, the
\* stored value is the serialization of the history.
C8_Persisted ==
    (Quiet /\ ~writeFailed) => storage = Stored(JSONstringify(history))

\* A clear and then an insert, both written.
C8_Witness ==
    /\ Quiet
    /\ ~writeFailed
    /\ hasReturned
    /\ Len(history.items) = 1
    /\ history.items[1].id = 2
    /\ storage = Stored(JSONstringify(history))

\* C9: at most one call of translateENtoPT is suspended, and loading is
\* true exactly while one is.
C9_OneInFlight ==
    /\ Len(calls) <= 1
    /\ loading <=> (Len(calls) = 1)

\* A second call, started after the first returned and left its entry.
C9_Witness ==
    /\ Len(calls) = 1
    /\ loading
    /\ started = 2
    /\ history.items # <<>>
    /\ history.items[1].id = nextId - 1
    /\ history.items[1].src = Hi

\* C10: no call of translateENtoPT comes from an input that is empty once
\* trimmed; a click on such an input sets the message, leaves loading
\* false, and leaves the calls, the history, the storage and the effects
\* as they are.
C10_NoEmptyCall ==
    \A c \in knownCalls :
        /\ trim(c.input) # <<>>
        /\ c.text = trim(c.input)
        /\ \A k \in 1..Len(c.sent) : c.sent[k].q # <<>>

C10_Click ==
    (handleTranslate(MaxCalls) /\ trim(input) = <<>>) =>
        /\ error' = ERR_EMPTY
        /\ ~loading'
        /\ UNCHANGED << calls, returned, started, history, storage, pending,
                        nextId >>

C10_EmptyInput == []C10_NoEmptyCall /\ [][C10_Click]_vars

C10_Witness ==
    /\ input = Blank
    /\ error = ERR_EMPTY
    /\ ~loading
    /\ calls = <<>>
    /\ started = 0
    /\ Quiet

\* The endpoints of a call have each answered or failed, as far as they
\* were called: the primary answered well, or it failed and the secondary
\* has settled.
settled(c) ==
    \/ validPrimary(c)
    \/ failedPrimary(c) /\ c.mymemory.mode # "none"

\* C11: translateENtoPT never raises.  Whatever the two endpoints did, a
\* call whose endpoints have settled has returned, never raised, and what
\* it returned is a non-empty string; and the message of the catch of
\* handleTranslate is never shown.
C11_NeverRaises ==
    /\ error # ERR_GENERIC
    /\ \A c \in knownCalls :
          /\ c.pc # "raised"
          /\ settled(c) => c.pc = "returned" /\ c.translated # <<>>
          /\ c.pc = "returned" => settled(c)

\* The primary answered with a non-success status, the body of the
\* secondary was no JSON, and the fallback was returned and shown.
C11_Witness ==
    /\ hasReturned
    /\ returned.pc = "returned"
    /\ returned.libre.mode = "status"
    /\ returned.mymemory.mode = "syntax"
    /\ hasWarning(returned.translated)
    /\ output = returned.translated
    /\ error = NO_ERROR
    /\ ~loading

\* C12: what a save writes is read back by a load as the very history
\* saved, with its order and the id, when, src and dst of each entry, the
\* empty history included.  A save step stores a text that is not falsy,
\* that JSON.parse takes, and whose parse is the history saved; the same
\* holds of every history the application ever holds; on a fresh start
\* the load effect queues the parse of what is stored, and the render
\* that follows makes it the history.
C12_EveryHistory ==
    renders(history) =>
        /\ Len(history.items) <= HISTORY_LIMIT
        /\ truthyRaw(Stored(JSONstringify(history)))
        /\ JSONparses(JSONstringify(history))
        /\ JSONparse(JSONstringify(history)) = history

C12_Loaded ==
    pending = <<"save", "render">> =>
        /\ truthyRaw(storage)
        /\ JSONparses(storage.raw)
        /\ queued = [set |-> TRUE, value |-> JSONparse(storage.raw)]

C12_SaveStep ==
    SaveEffect(TRUE) =>
        /\ truthyRaw(storage')
        /\ JSONparses(storage'.raw)
        /\ JSONparse(storage'.raw) = history

C12_RenderStep == Render => history' = queued.value

C12_RoundTrip ==
    /\ [](C12_EveryHistory /\ C12_Loaded)
    /\ [][C12_SaveStep /\ C12_RenderStep]_vars

\* A full history and one more entry, the fallback for its dst: saved,
\* and after the page was loaded again, the history once more.
C12_Witness ==
    /\ Quiet
    /\ started = 1
    /\ returned = NoCall
    /\ calls = <<>>
    /\ Len(history.items) = HISTORY_LIMIT
    /\ history.items[1] = Item(HISTORY_LIMIT + 1, HISTORY_LIMIT + 1, Hi, WARNING \o Hi)
    /\ history.items[2] = SavedItem(HISTORY_LIMIT, 1)
    /\ storage = Stored(JSONstringify(history))

\* C13: a confirmed clear empties the history and triggers a save; the
\* save of an empty history, when the storage takes it, stores the text
\* of the empty array; so once the effects have run the history is empty
\* and so is what is stored; and a page loaded again on that text loads
\* the empty history and shows it.  All of it whatever the number of
\* entries before.
C13_ClearStep ==
    handleClearHistory(TRUE) =>
        /\ history' = ArrayOf(<<>>)
        /\ pending' = <<"save">>

C13_SaveStep ==
    (SaveEffect(TRUE) /\ history = ArrayOf(<<>>)) =>
        storage' = Stored(<<Punct("["), Punct("]")>>)

C13_LoadStep ==
    (LoadEffect /\ storage = Stored(<<Punct("["), Punct("]")>>)) =>
        queued' = [set |-> TRUE, value |-> ArrayOf(<<>>)]

C13_RenderStep ==
    (Render /\ queued.value = ArrayOf(<<>>)) =>
        history' = ArrayOf(<<>>) /\ ~crashed'

C13_Settled ==
    (Quiet /\ history = ArrayOf(<<>>)) =>
        /\ storage = Stored(<<Punct("["), Punct("]")>>)
        /\ JSONparse(storage.raw) = ArrayOf(<<>>)

C13_Cleared ==
    /\ []C13_Settled
    /\ [][C13_ClearStep /\ C13_SaveStep /\ C13_LoadStep /\ C13_RenderStep]_vars

\* A full history, one more entry inserted in this session, and then a
\* clear and its save.
C13_Witness ==
    /\ Quiet
    /\ hasReturned
    /\ Len(returned.seen.items) = HISTORY_LIMIT
    /\ nextId = HISTORY_LIMIT + 2
    /\ history = ArrayOf(<<>>)
    /\ storage = Stored(<<Punct("["), Punct("]")>>)

\* C14: when the query is empty or holds nothing but whitespace, the
\* entries shown are the whole history, each entry in its place.
C14_BlankQuery ==
    (renders(history) /\ \A k \in 1..Len(query) : query[k] \in Whitespace) =>
        /\ Len(filteredHistory) = Len(history.items)
        /\ \A j \in 1..Len(history.items) : filteredHistory[j] = history.items[j]

\* A query of one space over two entries, neither of which holds a space.
C14_Witness ==
    /\ Quiet
    /\ query = <<" ">>
    /\ Len(history.items) = 2
    /\ history.items[1].dst = Oi
    /\ history.items[2].dst = Ola
    /\ filteredHistory = history.items

\* C15: a write that the storage refuses is swallowed.  The step of the
\* refused save changes nothing that is shown: not the message, not the
\* output, not the history, and nothing is unmounted; the stored value
\* stays as it was.  After it the component goes on from the history in
\* memory: the entries shown are entries of that history, an insert puts
\* its entry before that history, and a clear empties it.
C15_RefusedStep ==
    SaveEffect(FALSE) =>
        /\ UNCHANGED << input, output, loading, error, history, query,
                        storage, calls, returned >>
        /\ ~crashed'
        /\ renders(history')

C15_InMemory ==
    writeFailed =>
        /\ ~crashed
        /\ renders(history)
        /\ \A j \in 1..Len(filteredHistory) :
              \E k \in 1..Len(history.items) : filteredHistory[j] = history.items[k]

C15_InsertAfter ==
    (writeFailed /\ insertStep) =>
        /\ history'.items =
              <<Item(nextId, now, returned'.text, returned'.translated)>>
                  \o history.items
        /\ error' = error

C15_ClearAfter ==
    (writeFailed /\ handleClearHistory(TRUE)) => history'.items = <<>>

C15_Swallowed ==
    /\ []C15_InMemory
    /\ [][C15_RefusedStep /\ C15_InsertAfter /\ C15_ClearAfter]_vars

\* With a translation under way the history of one saved entry was
\* cleared and the save refused; then the translation was inserted into
\* the empty history and the save refused again: the storage still holds
\* the entry of the session before, and no message is shown.
C15_Witness ==
    /\ Quiet
    /\ writeFailed
    /\ hasReturned
    /\ returned.seen = ArrayOf(Saved(1))
    /\ history = ArrayOf(<<Item(2, 2, Hi, returned.translated)>>)
    /\ output = returned.translated
    /\ storage = Stored(JSONstringify(ArrayOf(Saved(1))))
    /\ error = NO_ERROR

\* C16: when the confirmation is declined, the history, the stored value
\* and the effects to run are left as they are; and a history that holds
\* entries becomes empty by no other step than a confirmed clear.
C16_Declined ==
    handleClearHistory(FALSE) => UNCHANGED << history, storage, pending >>

C16_OnlyConfirmed ==
    (history.items # <<>> /\ history'.items = <<>>) => handleClearHistory(TRUE)

C16_Confirmation == [][C16_Declined /\ C16_OnlyConfirmed]_vars

\* A saved entry was loaded and a clear confirmed: the history is empty,
\* the save is still to run, and the storage holds the entry.  No other
\* step leads here.
C16_Witness ==
    /\ history = ArrayOf(<<>>)
    /\ pending = <<"save">>
    /\ storage = Stored(JSONstringify(ArrayOf(Saved(1))))
    /\ started = 0
    /\ nextId = 2
    /\ ~crashed

\* C17 as claimed: from the mount until the history that was loaded is
\* rendered, a time in which no entry can be inserted and no clear
\* confirmed, the stored value is the history that was loaded.
C17_AsClaimed ==
    (queued.set /\ renders(queued.value)) =>
        storage = Stored(JSONstringify(queued.value))

\* C18: when a translation completes, its entry is put before the history
\* as it is at that step, whatever the history was when the button was
\* clicked: the entries after the new one are those of the history at
\* completion, in their order, and none of an earlier history comes back.
\* After a clear confirmed while the request was under way the history
\* is the new entry alone.
C18_Completion ==
    insertStep =>
        LET c == returned'
            new == Item(nextId, now, c.text, c.translated)
        IN  /\ history'.items[1] = new
            /\ Tail(history'.items) = slice(history.items, HISTORY_LIMIT - 1)
            /\ history.items = <<>> => history'.items = <<new>>

C18_NotUndone == [][C18_Completion]_vars

\* The button was clicked on a history of one entry, the history was
\* cleared while the request was under way, and the history is now the
\* one new entry.
C18_Witness ==
    /\ Quiet
    /\ hasReturned
    /\ returned.seen = ArrayOf(Saved(1))
    /\ history = ArrayOf(<<Item(2, 2, Hi, Ola)>>)
    /\ storage = Stored(JSONstringify(history))

\* What translateENtoPT owes for the text of call c, given what the
\* endpoints did: the primary's field, else the secondary's, else the
\* warning and the text.
owed(c) ==
    IF validPrimary(c) THEN c.libre.data.translatedText.v
    ELSE IF validSecondary(c) THEN c.mymemory.data.responseData.translatedText.v
    ELSE WARNING \o c.text

\* C19: the entry an insert step puts first has for src the input of the
\* click, trimmed, of 1 to 3000 characters, whatever the textarea holds
\* by then; every request of the call was for that src; and its dst is
\* what translateENtoPT owes for that src.  Every entry of the history
\* has a src of 1 to 3000 characters.
C19_InsertedEntry ==
    insertStep =>
        LET c == returned'
            e == history'.items[1]
        IN  /\ e.src = trim(c.input)
            /\ e.src = c.text
            /\ 1 <= Len(e.src) /\ Len(e.src) <= CHAR_LIMIT
            /\ \A k \in 1..Len(c.sent) : c.sent[k].q = e.src
            /\ e.dst = owed(c)
            /\ e.dst = c.translated

C19_SrcLengths ==
    renders(history) =>
        \A j \in 1..Len(history.items) :
            1 <= Len(history.items[j].src) /\ Len(history.items[j].src) <= CHAR_LIMIT

C19_Entries == []C19_SrcLengths /\ [][C19_InsertedEntry]_vars

\* The click was on 3000 characters between a space and a newline; while
\* the request was under way the saved entry was reopened, which put its
\* src in the textarea; both endpoints failed.  The entry inserted has
\* the 3000 characters for src and the fallback for them as dst.
C19_Witness ==
    /\ Quiet
    /\ hasReturned
    /\ returned.input = PaddedAtLimit
    /\ input = Hi
    /\ Len(history.items) = 2
    /\ history.items[1].src = AtLimit
    /\ history.items[1].dst = WARNING \o AtLimit
    /\ output = WARNING \o AtLimit

\* C20: a call stays suspended only as long as an endpoint it waits for
\* has not settled; and the step in which the last of them settles, the
\* one that takes the call off the suspended ones, leaves loading false,
\* the output equal to what translateENtoPT owes, the message as it was,
\* and the history with exactly one entry more, the new one first (one
\* less at the end when the history was full), the fallback included.
C20_NoneLeftWaiting ==
    /\ \A i \in 1..Len(calls) : ~settled(calls[i])
    /\ loading => calls # <<>>

C20_LastAnswer ==
    Len(calls') < Len(calls) =>
        LET c == returned'
        IN  /\ settled(c)
            /\ ~loading'
            /\ output' = owed(c)
            /\ error' = NO_ERROR
            /\ nextId' = nextId + 1
            /\ Len(history'.items) = atMost(Len(history.items) + 1, HISTORY_LIMIT)
            /\ history'.items[1] = Item(nextId, now, c.text, owed(c))
            /\ \A j \in 2..Len(history'.items) :
                  history'.items[j].id = history.items[j - 1].id

C20_Completes == []C20_NoneLeftWaiting /\ [][C20_LastAnswer]_vars

\* The fetch of the primary was rejected and the secondary answered with
\* a status that is no success: the step has just left the fallback as
\* output and as the dst of the one new entry, before the saved one.
C20_Witness ==
    /\ hasReturned
    /\ returned.libre.mode = "network"
    /\ returned.mymemory.mode = "status"
    /\ ~loading
    /\ calls = <<>>
    /\ pending = <<"save">>
    /\ output = WARNING \o Hi
    /\ history = ArrayOf(<<Item(2, 2, Hi, WARNING \o Hi), SavedItem(1, 1)>>)

====
